---- MODULE Spec2Model ----
(***************************************************************************)
(* Budget guard (infra/functions/budget_guard/main.py).                    *)
(*                                                                         *)
(* One invocation of handle_budget_alert is modelled as a sequential       *)
(* process whose steps are the blocks of local computation between two     *)
(* remote calls.  The remote service-management API is the environment:    *)
(* it owns the access policies, the ingress settings and the long-running  *)
(* operations, and it answers every call with one of the responses it can  *)
(* give (a get-policy, set-policy or patch call may fail; a get-operation  *)
(* poll answers pending, done, or done with an error).                     *)
(*                                                                         *)
(* Representation.  Optional values (a missing dict key, an unset          *)
(* environment variable) are sequences of length 0 or 1.  Strings that the *)
(* code takes apart (CLOUD_RUN_SERVICES, the base64 text) are sequences of *)
(* one-character strings.  Decimals are fractions [num, den] with den > 0, *)
(* compared by cross-multiplication.                                       *)
(***************************************************************************)
EXTENDS Integers, Sequences, FiniteSets, TLC

(***************************************************************************)
(* Bounds of the model.                                                    *)
(***************************************************************************)
MaxAmount == 2      \* costAmount and budgetAmount range over -1..MaxAmount
MaxBindings == 2    \* bindings per access policy
MaxLatency == 59    \* longest time one get-operation round trip may take
MaxTimeout == 12    \* largest timeout_seconds _wait_operation is called with directly
MaxDeliveries == 2  \* deliveries of one event that get as far as the credentials

(***************************************************************************)
(* Program constants.                                                      *)
(***************************************************************************)
InvokerRole == "roles/run.invoker"
AllUsers == "allUsers"
InternalOnly == "INGRESS_TRAFFIC_INTERNAL_ONLY"
DefaultThreshold == [num |-> 1, den |-> 1]
DefaultRegion == "us-central1"
DefaultTimeout == 120
PollInterval == 2
TrueWords == {"1", "true", "yes", "on"}

(***************************************************************************)
(* Optional values.                                                        *)
(***************************************************************************)
None == <<>>
Some(v) == <<v>>
Get(opt, dflt) == IF opt = <<>> THEN dflt ELSE opt[1]

(***************************************************************************)
(* Small sequence helpers.                                                 *)
(***************************************************************************)
RECURSIVE SeqOfLen(_, _)
SeqOfLen(S, n) ==
  IF n = 0 THEN {<<>>}
  ELSE {Append(s, x) : s \in SeqOfLen(S, n - 1), x \in S}

SeqUpTo(S, n) == UNION {SeqOfLen(S, k) : k \in 0..n}

Range(s) == {s[i] : i \in 1..Len(s)}

(***************************************************************************)
(* str.lower() on the values BUDGET_GUARD_DRY_RUN takes in this model.     *)
(***************************************************************************)
Lower(s) ==
  CASE s = "TRUE" -> "true"
    [] s = "True" -> "true"
    [] s = "On"   -> "on"
    [] s = "YES"  -> "yes"
    [] OTHER      -> s

ToBoolCaseSensitive(value) ==
  IF value = None THEN FALSE ELSE value[1] \in TrueWords

\* _to_bool: None is false, otherwise membership of the lowered word.
ToBool(value) ==
  IF value = None THEN FALSE ELSE Lower(value[1]) \in TrueWords

(***************************************************************************)
(* float arithmetic on the decimals of the model.                          *)
(***************************************************************************)
Frac(n, d) == [num |-> n, den |-> d]

\* The quotient taken the wrong way round.
RatioInverted(cost, budget) == Frac(budget, cost)

\* cost_amount / budget_amount, called with budget_amount > 0 only.
Ratio(cost, budget) == Frac(cost, budget)

LessThanOrEqual(r, t) == r.num * t.den <= t.num * r.den

\* ratio < threshold
LessThan(r, t) == r.num * t.den < t.num * r.den

NegativeBudget(budget) == budget < 0

\* budget_amount <= 0
InvalidBudget(budget) == budget <= 0

(***************************************************************************)
(* Payload Decoder.                                                        *)
(*                                                                         *)
(* The text under message.data is a sequence of characters: "x" stands for *)
(* a character of the base64 alphabet, "=" for padding and "!" for a       *)
(* character outside the alphabet.  What the alphabet characters encode    *)
(* travels with the text as `content`: whether the bytes are valid UTF-8,  *)
(* whether the text is valid JSON, and the JSON object it denotes.         *)
(***************************************************************************)
IsB64Char(c) == c = "x"
IsPadChar(c) == c = "="

\* base64.b64decode(encoded) with the default validate=False: characters
\* outside the alphabet are discarded before the padding check.
B64Decode(encoded, content) ==
  LET data == SelectSeq(encoded, IsB64Char)
      pads == SelectSeq(encoded, IsPadChar)
      rest == Len(data) % 4
      padded == \/ rest = 0
                \/ rest = 2 /\ Len(pads) >= 2
                \/ rest = 3 /\ Len(pads) >= 1
  IN  IF padded THEN [raised |-> FALSE, err |-> "", bytes |-> content]
      ELSE [raised |-> TRUE, err |-> "binascii.Error", bytes |-> content]

\* bytes.decode("utf-8")
Utf8Decode(bytes) ==
  IF bytes.utf8 THEN [raised |-> FALSE, err |-> "", text |-> bytes]
  ELSE [raised |-> TRUE, err |-> "UnicodeDecodeError", text |-> bytes]

\* json.loads(decoded)
JsonLoads(text) ==
  IF text.json THEN [raised |-> FALSE, err |-> "", value |-> text.doc]
  ELSE [raised |-> TRUE, err |-> "JSONDecodeError", value |-> text.doc]

EmptyDict ==
  [costAmount |-> None, budgetAmount |-> None, budgetDisplayName |-> None]

\* `not payload`: a dict is falsy when it has no key.
IsEmptyDict(d) == d = EmptyDict

\* _parse_payload without the `if not encoded` return of lines 22-23.
ParsePayloadAlwaysDecoding(cloud_event) ==
  LET b == B64Decode(cloud_event.encoded, cloud_event.content)
      u == Utf8Decode(b.bytes)
      j == JsonLoads(u.text)
  IN  IF b.raised THEN [raised |-> TRUE, err |-> b.err, payload |-> EmptyDict]
      ELSE IF u.raised THEN [raised |-> TRUE, err |-> u.err, payload |-> EmptyDict]
      ELSE IF j.raised THEN [raised |-> TRUE, err |-> j.err, payload |-> EmptyDict]
      ELSE [raised |-> FALSE, err |-> "", payload |-> j.value]

\* _parse_payload: an absent or empty message.data gives {}; otherwise the
\* three conversions run in order and the first failure propagates.
ParsePayload(cloud_event) ==
  LET encoded == cloud_event.encoded
      b == B64Decode(encoded, cloud_event.content)
      u == Utf8Decode(b.bytes)
      j == JsonLoads(u.text)
  IN  IF encoded = <<>> THEN [raised |-> FALSE, err |-> "", payload |-> EmptyDict]
      ELSE IF b.raised THEN [raised |-> TRUE, err |-> b.err, payload |-> EmptyDict]
      ELSE IF u.raised THEN [raised |-> TRUE, err |-> u.err, payload |-> EmptyDict]
      ELSE IF j.raised THEN [raised |-> TRUE, err |-> j.err, payload |-> EmptyDict]
      ELSE [raised |-> FALSE, err |-> "", payload |-> j.value]

(***************************************************************************)
(* Configuration: os.getenv and the parsing of CLOUD_RUN_SERVICES.         *)
(***************************************************************************)
Getenv(env, name, dflt) == Get(env[name], dflt)

\* str.split(","): the pieces between the commas, empty pieces included.
RECURSIVE Split(_)
Split(raw) ==
  IF \A i \in 1..Len(raw) : raw[i] # ","
    THEN <<raw>>
    ELSE LET k == CHOOSE i \in 1..Len(raw) :
                    /\ raw[i] = ","
                    /\ \A j \in 1..(i - 1) : raw[j] # ","
         IN  <<SubSeq(raw, 1, k - 1)>> \o Split(SubSeq(raw, k + 1, Len(raw)))

\* str.strip(): leading and trailing blanks removed.
RECURSIVE Strip(_)
Strip(s) ==
  IF s = <<>> THEN s
  ELSE IF Head(s) = " " THEN Strip(Tail(s))
  ELSE IF s[Len(s)] = " " THEN Strip(SubSeq(s, 1, Len(s) - 1))
  ELSE s

\* [service.strip() for service in services_raw.split(",") if service.strip()]
RECURSIVE StripNonEmpty(_)
StripNonEmpty(pieces) ==
  IF pieces = <<>> THEN <<>>
  ELSE IF Strip(Head(pieces)) = <<>> THEN StripNonEmpty(Tail(pieces))
  ELSE <<Strip(Head(pieces))>> \o StripNonEmpty(Tail(pieces))

\* The list with a name kept once only, `list(dict.fromkeys(...))`.
RECURSIVE Deduplicate(_)
Deduplicate(names) ==
  IF names = <<>> THEN <<>>
  ELSE LET rest == Deduplicate(SubSeq(names, 1, Len(names) - 1))
           last == names[Len(names)]
       IN  IF last \in Range(rest) THEN rest ELSE Append(rest, last)

ParseServicesDeduplicated(services_raw) ==
  Deduplicate(StripNonEmpty(Split(services_raw)))

ParseServices(services_raw) == StripNonEmpty(Split(services_raw))

\* The test with its second operand left out.
MissingEnvProjectOnly(project_id, services) ==
  project_id = None \/ project_id = Some("")

\* `not project_id or not services`
MissingEnv(project_id, services) ==
  project_id = None \/ project_id = Some("") \/ services = <<>>

\* f"projects/{project_id}/locations/{region}/services/{service}"
ServiceName(project_id, region, service) == <<project_id, region, service>>

(***************************************************************************)
(* Access Policy Editor: the filtering loop of _drop_public_invoker.       *)
(***************************************************************************)
IsNotPublicLowerCase(member) == member # "allusers"

\* member != "allUsers"
IsNotPublic(member) == member # AllUsers

\* members.remove("allUsers"): the first occurrence only.
RECURSIVE RemoveFirstPublic(_)
RemoveFirstPublic(members) ==
  IF members = <<>> THEN <<>>
  ELSE IF Head(members) = AllUsers THEN Tail(members)
  ELSE <<Head(members)>> \o RemoveFirstPublic(Tail(members))

\* [member for member in members if member != "allUsers"]
FilterMembers(members) == SelectSeq(members, IsNotPublic)

\* The iteration without the `if filtered_members:` test of line 56.
FilterBindingKeepEmpty(acc, binding) ==
  IF binding.role # InvokerRole
    THEN [updated |-> Append(acc.updated, binding), removed |-> acc.removed]
    ELSE LET filtered == SelectSeq(binding.members, IsNotPublic)
         IN  [updated |-> Append(acc.updated, [binding EXCEPT !.members = filtered]),
              removed |-> acc.removed \/ Len(filtered) # Len(binding.members)]

\* One iteration of `for binding in bindings`, on the accumulator
\* [updated_bindings, removed].
FilterBinding(acc, binding) ==
  IF binding.role # InvokerRole
    THEN [updated |-> Append(acc.updated, binding), removed |-> acc.removed]
    ELSE LET filtered == FilterMembers(binding.members)
             removed == acc.removed \/ Len(filtered) # Len(binding.members)
         IN  IF filtered # <<>>
               THEN [updated |-> Append(acc.updated,
                                        [binding EXCEPT !.members = filtered]),
                     removed |-> removed]
               ELSE [updated |-> acc.updated, removed |-> removed]

\* The loop with `removed = True` set for every invoker binding it meets.
RECURSIVE FilterLoopFlaggingInvoker(_, _)
FilterLoopFlaggingInvoker(acc, bindings) ==
  IF bindings = <<>> THEN acc
  ELSE LET f == FilterBinding(acc, Head(bindings))
       IN  FilterLoopFlaggingInvoker(
             [updated |-> f.updated,
              removed |-> f.removed \/ Head(bindings).role = InvokerRole],
             Tail(bindings))

RECURSIVE FilterLoop(_, _)
FilterLoop(acc, bindings) ==
  IF bindings = <<>> THEN acc
  ELSE FilterLoop(FilterBinding(acc, Head(bindings)), Tail(bindings))

\* `removed` taken to be `updated_bindings != bindings`.
FilterBindingsChangedByComparison(bindings) ==
  LET f == FilterLoop([updated |-> <<>>, removed |-> FALSE], bindings)
  IN  [updated |-> f.updated, removed |-> f.updated # bindings]

\* The loop from its initial accumulator: updated_bindings = [], removed = False.
FilterBindings(bindings) ==
  FilterLoop([updated |-> <<>>, removed |-> FALSE], bindings)

(***************************************************************************)
(* State.                                                                  *)
(***************************************************************************)
VARIABLES
  cloud_event,      \* the event delivered to the function
  environ,          \* os.environ
  policy,           \* remote: access policy (its bindings) of each service
  ingress,          \* remote: ingress setting of each service
  operation,        \* remote: long-running operation of each service
  pc,               \* position of the invocation
  outcome,          \* how the invocation ended
  err,              \* the exception that propagated out of the invocation
  payload, cost_amount, budget_amount, threshold, dry_run, ratio,
  project_id, region, services,
  idx,              \* position of the `for service in services` loop
  service_name,
  fetched,          \* _drop_public_invoker: the bindings of the policy it read
  updated_bindings, \* _drop_public_invoker: the filtered bindings
  changed,          \* value returned by the last _drop_public_invoker
  operation_name, timeout_seconds, deadline,
  now,              \* time.time(), measured from the call of _wait_operation
  polls,            \* get-operation polls of the current _wait_operation
  observed,         \* answer to the last poll of _wait_operation, and whether
                    \* that poll was issued before the deadline
  log,              \* logging output, in order
  calls,            \* credential, get-policy, set-policy and patch calls, in order
  polled,           \* services whose operation was polled at least once
  peer,             \* another writer of the access policies: a second invocation
                    \* inside _drop_public_invoker, or an unrelated client
  policy0           \* the access policies when the event was first delivered

inputs == <<cloud_event, environ>>
others == <<peer, policy0>>
remote == <<policy, ingress, operation>>
evalLocals == <<payload, cost_amount, budget_amount, threshold, dry_run, ratio>>
confLocals == <<project_id, region, services>>
editLocals == <<fetched, updated_bindings, changed>>
waitLocals == <<operation_name, timeout_seconds, deadline, now, polls, observed>>
vars == <<cloud_event, environ, policy, ingress, operation, pc, outcome, err,
          payload, cost_amount, budget_amount, threshold, dry_run, ratio,
          project_id, region, services, idx, service_name,
          fetched, updated_bindings, changed,
          operation_name, timeout_seconds, deadline, now, polls, observed,
          log, calls, polled, peer, policy0>>

(***************************************************************************)
(* The values the model draws its inputs from.                             *)
(***************************************************************************)
NoService == <<>>
IdlePeer ==
  [pc |-> "idle", resource |-> NoService, fetched |-> <<>>,
   updated_bindings |-> <<>>, changed |-> None]
NothingObserved == [answer |-> "nothing", intime |-> TRUE]
ProjectName == "p"
ShortNames == {<<"a">>, <<"b">>}
Resources == {ServiceName(ProjectName, DefaultRegion, s) : s \in ShortNames}
ResourceA == ServiceName(ProjectName, DefaultRegion, <<"a">>)
ResourceB == ServiceName(ProjectName, DefaultRegion, <<"b">>)

Amounts == (-1)..MaxAmount
Dicts ==
  {EmptyDict,
   [costAmount |-> None, budgetAmount |-> None, budgetDisplayName |-> Some("n")],
   [costAmount |-> Some(1), budgetAmount |-> Some(1), budgetDisplayName |-> None]}
  \cup [costAmount : {None} \cup {Some(c) : c \in Amounts},
        budgetAmount : {None} \cup {Some(b) : b \in Amounts},
        budgetDisplayName : {Some("n")}]

FiringDict ==
  [costAmount |-> Some(2), budgetAmount |-> Some(1), budgetDisplayName |-> Some("n")]
BelowDict ==
  [costAmount |-> Some(1), budgetAmount |-> Some(2), budgetDisplayName |-> Some("n")]

Json(d) == [utf8 |-> TRUE, json |-> TRUE, doc |-> d]
BadJson == [utf8 |-> TRUE, json |-> FALSE, doc |-> EmptyDict]
BadUtf8 == [utf8 |-> FALSE, json |-> FALSE, doc |-> EmptyDict]

CleanText == <<"x", "x", "x", "=">>
StrayText == <<"x", "!", "x", "x", "=">>
UnpaddedText == <<"x", "x", "x">>
StrayUnpaddedText == <<"x", "!", "x">>

\* No data: the empty text, which is not a JSON document.
NoDataEvent == [encoded |-> <<>>, content |-> BadJson]

Events ==
  {NoDataEvent}
  \cup [encoded : {CleanText}, content : {Json(d) : d \in Dicts} \cup {BadJson, BadUtf8}]
  \cup [encoded : {StrayText, UnpaddedText, StrayUnpaddedText},
        content : {Json(EmptyDict), Json(FiringDict), Json(BelowDict), BadJson}]

FiringEvent == [encoded |-> CleanText, content |-> Json(FiringDict)]

ThresholdValues == {None, Some(Frac(0, 1)), Some(Frac(1, 2)), Some(Frac(2, 1))}
DryRunValues == {None, Some("1"), Some("TRUE"), Some("no")}
ProjectValues == {None, Some(""), Some(ProjectName)}
ServicesValues ==
  {None, Some(<<" ", ",">>), Some(<<"a">>), Some(<<"a", ",", "b">>),
   Some(<<" ", "b", " ", ",", ",", "a", ",">>), Some(<<"a", ",", " ", "a">>)}

Env(t, d, p, s) ==
  [BUDGET_STOP_THRESHOLD |-> t, BUDGET_GUARD_DRY_RUN |-> d, GCP_PROJECT_ID |-> p,
   CLOUD_RUN_REGION |-> None, CLOUD_RUN_SERVICES |-> s]

Roles == {InvokerRole, "roles/viewer"}
Members == {AllUsers, "user:a"}
MaxMembers == Cardinality(Members)
Bindings == [role : Roles, members : SeqUpTo(Members, MaxMembers)]
Policies == SeqUpTo(Bindings, MaxBindings)

PublicPolicy == <<[role |-> InvokerRole, members |-> <<AllUsers>>]>>
MixedPolicy ==
  <<[role |-> "roles/viewer", members |-> <<AllUsers, "user:a">>],
    [role |-> InvokerRole, members |-> <<"user:a", AllUsers>>]>>
PrivatePolicy == <<[role |-> InvokerRole, members |-> <<"user:a">>]>>
SomePolicies == {PublicPolicy, MixedPolicy, PrivatePolicy}

(***************************************************************************)
(* Init: the invocation is about to start.  The inputs vary one group at a *)
(* time around a firing alert on two public services: the event and the    *)
(* threshold; the rest of the environment and the policies of both         *)
(* services; the policy of one service over all policies of the bounds.    *)
(***************************************************************************)
InitInputs ==
  \/ /\ cloud_event \in Events
     /\ \E t \in ThresholdValues :
          environ = Env(t, None, Some(ProjectName), Some(<<"a", ",", "b">>))
     /\ policy = [r \in Resources |-> PublicPolicy]
  \/ /\ cloud_event \in {FiringEvent, NoDataEvent}
     /\ \E d \in DryRunValues, p \in ProjectValues, s \in ServicesValues :
          environ = Env(None, d, p, s)
     /\ policy \in [Resources -> SomePolicies]
  \/ /\ cloud_event = FiringEvent
     /\ \E d \in {None, Some("TRUE")} :
          environ = Env(None, d, Some(ProjectName), Some(<<"a", ",", " ", "a">>))
     /\ \E q \in Policies :
          policy = [r \in Resources |-> IF r = ResourceA THEN q ELSE PrivatePolicy]

Init ==
  /\ InitInputs
  /\ ingress = [r \in Resources |-> "INGRESS_TRAFFIC_ALL"]
  /\ operation = [r \in Resources |-> "none"]
  /\ pc = "start"
  /\ outcome = "running"
  /\ err = ""
  /\ payload = EmptyDict
  /\ cost_amount = 0
  /\ budget_amount = 0
  /\ threshold = DefaultThreshold
  /\ dry_run = FALSE
  /\ ratio = Frac(0, 1)
  /\ project_id = None
  /\ region = DefaultRegion
  /\ services = <<>>
  /\ idx = 0
  /\ service_name = NoService
  /\ fetched = <<>>
  /\ updated_bindings = <<>>
  /\ changed = None
  /\ operation_name = NoService
  /\ timeout_seconds = 0
  /\ deadline = 0
  /\ now = 0
  /\ polls = 0
  /\ observed = NothingObserved
  /\ log = <<>>
  /\ calls = <<>>
  /\ polled = {}
  /\ peer = IdlePeer
  /\ policy0 = policy

(***************************************************************************)
(* Logging and call records.                                               *)
(***************************************************************************)
LogLine(event, service, count, detail) ==
  [event |-> event, service |-> service, count |-> count, detail |-> detail]

\* The logging function each line is written with.
LogLevel(event) ==
  CASE event = "missing required env" -> "error"
    [] event \in {"budget payload is empty", "invalid budget amount"} -> "warning"
    [] OTHER -> "info"

Call(method, resource, body) ==
  [method |-> method, resource |-> resource, body |-> body]

\* The exception caught and logged around the body of the service loop.
RaiseSwallowed(e) ==
  /\ pc' = "loop"
  /\ outcome' = outcome
  /\ err' = e

\* An exception leaves handle_budget_alert: nothing catches it.
Raise(e) ==
  /\ pc' = "raised"
  /\ outcome' = "raised"
  /\ err' = e

\* A `return` of handle_budget_alert.
Return(how) ==
  /\ pc' = "returned"
  /\ outcome' = how
  /\ err' = err

(***************************************************************************)
(* handle_budget_alert, lines 89-92: decode the payload.                   *)
(***************************************************************************)
Decode ==
  /\ pc = "start"
  /\ LET r == ParsePayload(cloud_event)
     IN  IF r.raised
           THEN /\ Raise(r.err)
                /\ UNCHANGED <<payload, log>>
           ELSE IF IsEmptyDict(r.payload)
             THEN /\ Return("empty")
                  /\ payload' = r.payload
                  /\ log' = Append(log, LogLine("budget payload is empty",
                                                NoService, 0, None))
             ELSE /\ pc' = "evaluate"
                  /\ payload' = r.payload
                  /\ UNCHANGED <<outcome, err, log>>
  /\ UNCHANGED <<inputs, others, remote, cost_amount, budget_amount, threshold, dry_run,
                 ratio, confLocals, idx, service_name, editLocals, waitLocals,
                 calls, polled>>

(***************************************************************************)
(* Lines 94-110: read the amounts and the options, refuse a non-positive   *)
(* budget, compute the ratio and log the budget update.                    *)
(***************************************************************************)
Evaluate ==
  /\ pc = "evaluate"
  /\ LET cost == Get(payload.costAmount, 0)
         budget == Get(payload.budgetAmount, 0)
     IN  /\ cost_amount' = cost
         /\ budget_amount' = budget
         /\ threshold' = Getenv(environ, "BUDGET_STOP_THRESHOLD", DefaultThreshold)
         /\ dry_run' = ToBool(environ.BUDGET_GUARD_DRY_RUN)
         /\ IF InvalidBudget(budget)
              THEN /\ Return("invalid_budget")
                   /\ log' = Append(log, LogLine("invalid budget amount",
                                                 NoService, budget, None))
                   /\ UNCHANGED ratio
              ELSE /\ pc' = "decide"
                   /\ ratio' = Ratio(cost, budget)
                   /\ log' = Append(log,
                        LogLine("budget update", NoService, 0,
                                Some([cost |-> cost, budget |-> budget,
                                      ratio |-> Ratio(cost, budget),
                                      displayName |-> payload.budgetDisplayName])))
                   /\ UNCHANGED <<outcome, err>>
  /\ UNCHANGED <<inputs, others, remote, payload, confLocals, idx, service_name,
                 editLocals, waitLocals, calls, polled>>

(***************************************************************************)
(* Lines 112-114: the guard decision.                                      *)
(***************************************************************************)
Decide ==
  /\ pc = "decide"
  /\ IF LessThan(ratio, threshold)
       THEN /\ Return("skipped")
            /\ log' = Append(log, LogLine("skip guard", NoService, 0, None))
       ELSE /\ pc' = "config"
            /\ UNCHANGED <<outcome, err, log>>
  /\ UNCHANGED <<inputs, others, remote, evalLocals, confLocals, idx, service_name,
                 editLocals, waitLocals, calls, polled>>

(***************************************************************************)
(* Lines 116-123: the target project, region and services.                 *)
(***************************************************************************)
LoadConfig ==
  /\ pc = "config"
  /\ LET p == environ.GCP_PROJECT_ID
         svcs == ParseServices(Getenv(environ, "CLOUD_RUN_SERVICES", <<>>))
     IN  /\ project_id' = p
         /\ region' = Getenv(environ, "CLOUD_RUN_REGION", DefaultRegion)
         /\ services' = svcs
         /\ IF MissingEnv(p, svcs)
              THEN /\ Return("missing_env")
                   /\ log' = Append(log, LogLine("missing required env",
                                                 NoService, 0, None))
              ELSE /\ pc' = "credentials"
                   /\ UNCHANGED <<outcome, err, log>>
  /\ UNCHANGED <<inputs, others, remote, evalLocals, idx, service_name, editLocals,
                 waitLocals, calls, polled>>

(***************************************************************************)
(* Lines 125-129: credentials and API clients, once per invocation.        *)
(***************************************************************************)
Credentials ==
  /\ pc = "credentials"
  /\ calls' = Append(calls, Call("credentials.refresh", NoService, None))
  /\ idx' = 1
  /\ pc' = "loop"
  /\ UNCHANGED <<inputs, others, remote, outcome, err, evalLocals, confLocals,
                 service_name, editLocals, waitLocals, log, polled>>

(***************************************************************************)
(* Lines 131-133: the next service of the list.                            *)
(***************************************************************************)
NextService ==
  /\ pc = "loop"
  /\ idx <= Len(services)
  /\ LET name == ServiceName(project_id[1], region, services[idx])
     IN  /\ service_name' = name
         /\ log' = Append(log, LogLine("restricting public access", name, 0, None))
  /\ pc' = "get_policy"
  /\ UNCHANGED <<inputs, others, remote, outcome, err, evalLocals, confLocals, idx,
                 editLocals, waitLocals, calls, polled>>

(***************************************************************************)
(* Line 137: the list is exhausted.                                        *)
(***************************************************************************)
Finish ==
  /\ pc = "loop"
  /\ idx > Len(services)
  /\ Return("finished")
  /\ log' = Append(log, LogLine("budget guard finished", NoService,
                                Len(services), None))
  /\ UNCHANGED <<inputs, others, remote, evalLocals, confLocals, idx, service_name,
                 editLocals, waitLocals, calls, polled>>

(***************************************************************************)
(* _drop_public_invoker, lines 41-66: read the policy, filter it, and      *)
(* return when nothing was removed or when the run is a dry run.           *)
(***************************************************************************)
GetPolicy ==
  /\ pc = "get_policy"
  /\ calls' = Append(calls, Call("getIamPolicy", service_name, None))
  /\ \/ /\ Raise("HttpError")
        /\ UNCHANGED <<editLocals, log>>
     \/ LET f == FilterBindings(policy[service_name])
        IN  /\ fetched' = policy[service_name]
            /\ updated_bindings' = f.updated
            /\ IF ~f.removed
                 THEN /\ changed' = Some(FALSE)
                      /\ pc' = "restrict"
                      /\ UNCHANGED log
                 ELSE IF dry_run
                   THEN /\ changed' = Some(TRUE)
                        /\ pc' = "restrict"
                        /\ log' = Append(log, LogLine("[dry-run] would remove allUsers",
                                                      service_name, 0, None))
                   ELSE /\ pc' = "set_policy"
                        /\ UNCHANGED <<changed, log>>
            /\ UNCHANGED <<outcome, err>>
  /\ UNCHANGED <<inputs, others, remote, evalLocals, confLocals, idx, service_name,
                 waitLocals, polled>>

\* A write that removes allUsers from the policy stored at the time of the
\* write, instead of replacing it by the filtered snapshot.
SetPolicyOnCurrent ==
  /\ pc = "set_policy"
  /\ calls' = Append(calls, Call("setIamPolicy", service_name, Some(updated_bindings)))
  /\ \/ /\ Raise("HttpError")
        /\ UNCHANGED <<policy, changed>>
     \/ /\ policy' = [policy EXCEPT
                        ![service_name] = FilterBindings(policy[service_name]).updated]
        /\ changed' = Some(TRUE)
        /\ pc' = "restrict"
        /\ UNCHANGED <<outcome, err>>
  /\ UNCHANGED <<inputs, others, ingress, operation, evalLocals, confLocals, idx,
                 service_name, fetched, updated_bindings, waitLocals, log, polled>>

(***************************************************************************)
(* _drop_public_invoker, lines 68-70: write the filtered policy back.      *)
(***************************************************************************)
SetPolicy ==
  /\ pc = "set_policy"
  /\ calls' = Append(calls, Call("setIamPolicy", service_name, Some(updated_bindings)))
  /\ \/ /\ Raise("HttpError")
        /\ UNCHANGED <<policy, changed>>
     \/ /\ policy' = [policy EXCEPT ![service_name] = updated_bindings]
        /\ changed' = Some(TRUE)
        /\ pc' = "restrict"
        /\ UNCHANGED <<outcome, err>>
  /\ UNCHANGED <<inputs, others, ingress, operation, evalLocals, confLocals, idx,
                 service_name, fetched, updated_bindings, waitLocals, log, polled>>

\* _restrict_ingress without lines 83-85: the operation is left to itself.
RestrictIngressNotWaiting ==
  /\ pc = "restrict"
  /\ IF dry_run
       THEN /\ log' = Append(log, LogLine("[dry-run] would set ingress internal-only",
                                          service_name, 0, None))
            /\ idx' = idx + 1
            /\ pc' = "loop"
            /\ UNCHANGED <<remote, outcome, err, waitLocals, calls>>
       ELSE /\ calls' = Append(calls, Call("patch", service_name, Some(InternalOnly)))
            /\ \/ /\ Raise("HttpError")
                  /\ UNCHANGED <<remote, idx, waitLocals>>
               \/ /\ ingress' = [ingress EXCEPT ![service_name] = InternalOnly]
                  /\ idx' = idx + 1
                  /\ pc' = "loop"
                  /\ UNCHANGED <<policy, operation, outcome, err, waitLocals>>
               \/ /\ operation' = [operation EXCEPT ![service_name] = "pending"]
                  /\ idx' = idx + 1
                  /\ pc' = "loop"
                  /\ UNCHANGED <<policy, ingress, outcome, err, waitLocals>>
            /\ UNCHANGED log
  /\ UNCHANGED <<inputs, others, evalLocals, confLocals, service_name, editLocals,
                 polled>>

(***************************************************************************)
(* _restrict_ingress, lines 74-85, and the entry of _wait_operation, line  *)
(* 29.  A patch answered without an operation name has completed.          *)
(***************************************************************************)
RestrictIngress ==
  /\ pc = "restrict"
  /\ IF dry_run
       THEN /\ log' = Append(log, LogLine("[dry-run] would set ingress internal-only",
                                          service_name, 0, None))
            /\ idx' = idx + 1
            /\ pc' = "loop"
            /\ UNCHANGED <<remote, outcome, err, waitLocals, calls>>
       ELSE /\ calls' = Append(calls, Call("patch", service_name, Some(InternalOnly)))
            /\ \/ /\ Raise("HttpError")
                  /\ UNCHANGED <<remote, idx, waitLocals>>
               \/ /\ ingress' = [ingress EXCEPT ![service_name] = InternalOnly]
                  /\ idx' = idx + 1
                  /\ pc' = "loop"
                  /\ UNCHANGED <<policy, operation, outcome, err, waitLocals>>
               \/ /\ operation' = [operation EXCEPT ![service_name] = "pending"]
                  /\ operation_name' = service_name
                  /\ timeout_seconds' = DefaultTimeout
                  /\ now' = 0
                  /\ deadline' = now' + timeout_seconds'
                  /\ polls' = 0
                  /\ observed' = NothingObserved
                  /\ pc' = "wait"
                  /\ UNCHANGED <<policy, ingress, outcome, err, idx>>
            /\ UNCHANGED log
  /\ UNCHANGED <<inputs, others, evalLocals, confLocals, service_name, editLocals, polled>>

(***************************************************************************)
(* _wait_operation, lines 30-36: one turn of the polling loop.  The        *)
(* operation answers pending, done, or done with an error; a pending       *)
(* answer is followed by the sleep, and the round trip itself takes no     *)
(* time or MaxLatency.                                                     *)
(***************************************************************************)
PollAnswers == {"pending", "done", "error"}

\* The loop condition with `<=`.
BeforeOrAtDeadline(t, d) == t <= d

\* `while time.time() < deadline`
BeforeDeadline(t, d) == t < d

\* The loop without the `if operation.get("error")` test of line 33.
PollOutcomeIgnoringError(answer) ==
  CASE answer = "done"  -> "return"
    [] answer = "error" -> "return"
    [] OTHER            -> "sleep"

\* The loop returning on any answer, `done` or not.
PollOutcomeNotWaiting(answer) ==
  CASE answer = "error" -> "raise"
    [] OTHER            -> "return"

\* Lines 32-36: what the loop does with the answer to a poll.
PollOutcome(answer) ==
  CASE answer = "done"  -> "return"
    [] answer = "error" -> "raise"
    [] OTHER            -> "sleep"

WaitPoll ==
  /\ pc = "wait"
  /\ BeforeDeadline(now, deadline)
  /\ polled' = polled \cup {operation_name}
  /\ \E answer \in PollAnswers :
       /\ observed' = [answer |-> answer, intime |-> now < deadline]
       /\ operation' = [operation EXCEPT ![operation_name] = answer]
       /\ ingress' = IF answer = "done"
                       THEN [ingress EXCEPT ![operation_name] = InternalOnly]
                       ELSE ingress
       /\ CASE PollOutcome(answer) = "return" ->
                 \* _wait_operation returns and its frame is gone
                 /\ timeout_seconds' = 0
                 /\ deadline' = 0
                 /\ now' = 0
                 /\ polls' = 0
                 /\ idx' = idx + 1
                 /\ pc' = "loop"
                 /\ UNCHANGED <<outcome, err>>
            [] PollOutcome(answer) = "raise" ->
                 \* the RuntimeError unwinds the frame of _wait_operation
                 /\ Raise("OperationFailed")
                 /\ timeout_seconds' = 0
                 /\ deadline' = 0
                 /\ now' = 0
                 /\ polls' = 0
                 /\ UNCHANGED idx
            [] OTHER ->
                 /\ \E latency \in {0, MaxLatency} :
                      now' = now + latency + PollInterval
                 /\ polls' = polls + 1
                 /\ UNCHANGED <<idx, pc, outcome, err, timeout_seconds, deadline>>
  /\ UNCHANGED <<inputs, others, policy, evalLocals, confLocals, service_name, editLocals,
                 operation_name, log, calls>>

(***************************************************************************)
(* _wait_operation, line 37: the loop condition fails.                     *)
(***************************************************************************)
WaitTimeout ==
  /\ pc = "wait"
  /\ ~BeforeDeadline(now, deadline)
  /\ Raise("OperationTimeout")
  /\ UNCHANGED <<inputs, others, remote, evalLocals, confLocals, idx, service_name,
                 editLocals, waitLocals, log, calls, polled>>

Next ==
  \/ Decode
  \/ Evaluate
  \/ Decide
  \/ LoadConfig
  \/ Credentials
  \/ NextService
  \/ Finish
  \/ GetPolicy
  \/ SetPolicy
  \/ RestrictIngress
  \/ WaitPoll
  \/ WaitTimeout

Spec == Init /\ [][Next]_vars

(***************************************************************************)
(* The same invocation on the initial states whose policies are the three  *)
(* named ones: for the properties of the control flow, which do not look   *)
(* into the policies.                                                      *)
(***************************************************************************)
AlertInit ==
  /\ Init
  /\ policy \in [Resources -> SomePolicies]

AlertSpec == AlertInit /\ [][Next]_vars

(***************************************************************************)
(* _wait_operation on its own: called with any timeout_seconds, on the     *)
(* operation of a patch just issued for the only configured service.  The  *)
(* process keeps running, so a step that can be taken is taken.            *)
(***************************************************************************)
Timeouts == (-1)..MaxTimeout

WaiterInit ==
  /\ cloud_event = FiringEvent
  /\ environ = Env(None, None, Some(ProjectName), Some(<<"a">>))
  /\ policy = [r \in Resources |-> PrivatePolicy]
  /\ ingress = [r \in Resources |-> "INGRESS_TRAFFIC_ALL"]
  /\ operation = [r \in Resources |-> IF r = ResourceA THEN "pending" ELSE "none"]
  /\ pc = "wait"
  /\ outcome = "running"
  /\ err = ""
  /\ payload = FiringDict
  /\ cost_amount = 2
  /\ budget_amount = 1
  /\ threshold = DefaultThreshold
  /\ dry_run = FALSE
  /\ ratio = Ratio(2, 1)
  /\ project_id = Some(ProjectName)
  /\ region = DefaultRegion
  /\ services = <<<<"a">>>>
  /\ idx = 1
  /\ service_name = ResourceA
  /\ fetched = PrivatePolicy
  /\ updated_bindings = PrivatePolicy
  /\ changed = Some(FALSE)
  /\ operation_name = ResourceA
  /\ timeout_seconds \in Timeouts
  /\ now = 0
  /\ deadline = now + timeout_seconds
  /\ polls = 0
  /\ observed = NothingObserved
  /\ log = <<LogLine("budget update", NoService, 0,
                     Some([cost |-> 2, budget |-> 1, ratio |-> Ratio(2, 1),
                           displayName |-> Some("n")])),
             LogLine("restricting public access", ResourceA, 0, None)>>
  /\ calls = <<Call("credentials.refresh", NoService, None),
               Call("getIamPolicy", ResourceA, None),
               Call("patch", ResourceA, Some(InternalOnly))>>
  /\ polled = {}
  /\ peer = IdlePeer
  /\ policy0 = policy

WaiterNext ==
  \/ WaitPoll
  \/ WaitTimeout

WaiterSpec == WaiterInit /\ [][WaiterNext]_vars /\ WF_vars(WaiterNext)

(***************************************************************************)
(* Redelivery.  The transport delivers an event at least once: when an     *)
(* invocation was aborted by an exception the same event is handed to a    *)
(* new invocation, which starts from scratch on the remote state the       *)
(* aborted one left behind.  `calls`, `log` and `polled` go on recording.  *)
(***************************************************************************)
TwoServices == <<"a", ",", "b">>

RedeliveryInit ==
  /\ Init
  /\ cloud_event = FiringEvent
  /\ environ = Env(None, None, Some(ProjectName), Some(TwoServices))

Redeliver ==
  /\ pc = "raised"
  /\ Cardinality({i \in 1..Len(calls) : calls[i].method = "credentials.refresh"})
       < MaxDeliveries
  /\ pc' = "start"
  /\ outcome' = "running"
  /\ err' = ""
  /\ payload' = EmptyDict
  /\ cost_amount' = 0
  /\ budget_amount' = 0
  /\ threshold' = DefaultThreshold
  /\ dry_run' = FALSE
  /\ ratio' = Frac(0, 1)
  /\ project_id' = None
  /\ region' = DefaultRegion
  /\ services' = <<>>
  /\ idx' = 0
  /\ service_name' = NoService
  /\ fetched' = <<>>
  /\ updated_bindings' = <<>>
  /\ changed' = None
  /\ operation_name' = NoService
  /\ timeout_seconds' = 0
  /\ deadline' = 0
  /\ now' = 0
  /\ polls' = 0
  /\ observed' = NothingObserved
  /\ UNCHANGED <<inputs, others, remote, log, calls, polled>>

RedeliveryNext ==
  \/ Next
  \/ Redeliver

RedeliverySpec == RedeliveryInit /\ [][RedeliveryNext]_vars

(***************************************************************************)
(* _drop_public_invoker on its own: the invocation is about to call it for *)
(* the only configured service, dry-run off, on any policy of the bounds.  *)
(***************************************************************************)
EditorInit ==
  /\ cloud_event = FiringEvent
  /\ environ = Env(None, None, Some(ProjectName), Some(<<"a">>))
  /\ \E q \in Policies :
       policy = [r \in Resources |-> IF r = ResourceA THEN q ELSE PrivatePolicy]
  /\ ingress = [r \in Resources |-> "INGRESS_TRAFFIC_ALL"]
  /\ operation = [r \in Resources |-> "none"]
  /\ pc = "get_policy"
  /\ outcome = "running"
  /\ err = ""
  /\ payload = FiringDict
  /\ cost_amount = 2
  /\ budget_amount = 1
  /\ threshold = DefaultThreshold
  /\ dry_run = FALSE
  /\ ratio = Ratio(2, 1)
  /\ project_id = Some(ProjectName)
  /\ region = DefaultRegion
  /\ services = <<<<"a">>>>
  /\ idx = 1
  /\ service_name = ResourceA
  /\ fetched = <<>>
  /\ updated_bindings = <<>>
  /\ changed = None
  /\ operation_name = NoService
  /\ timeout_seconds = 0
  /\ deadline = 0
  /\ now = 0
  /\ polls = 0
  /\ observed = NothingObserved
  /\ log = <<LogLine("budget update", NoService, 0,
                     Some([cost |-> 2, budget |-> 1, ratio |-> Ratio(2, 1),
                           displayName |-> Some("n")])),
             LogLine("restricting public access", ResourceA, 0, None)>>
  /\ calls = <<Call("credentials.refresh", NoService, None)>>
  /\ polled = {}
  /\ peer = IdlePeer
  /\ policy0 = policy

(***************************************************************************)
(* Another client of the remote API edits the policy the Editor works on,  *)
(* once, at any moment: before the Editor's read, between its read and its *)
(* write, or after.  It grants a role to a member of its own, or grants    *)
(* allUsers the invoker role.                                              *)
(***************************************************************************)
OtherBinding == [role |-> "roles/viewer", members |-> <<"user:b">>]
PublicBinding == [role |-> InvokerRole, members |-> <<AllUsers>>]
OtherEdits(bindings) ==
  {Append(bindings, OtherBinding), Append(bindings, PublicBinding)}

OtherWrite ==
  /\ peer.pc = "idle"
  /\ \E edited \in OtherEdits(policy[service_name]) :
       /\ policy' = [policy EXCEPT ![service_name] = edited]
       /\ peer' = [pc |-> "wrote", resource |-> service_name,
                   fetched |-> policy[service_name],
                   updated_bindings |-> edited, changed |-> Some(TRUE)]
  /\ UNCHANGED <<inputs, policy0, ingress, operation, pc, outcome, err, evalLocals,
                 confLocals, idx, service_name, editLocals, waitLocals, log, calls,
                 polled>>

OtherWriterNext ==
  \/ GetPolicy
  \/ SetPolicy
  \/ OtherWrite

OtherWriterSpec == EditorInit /\ [][OtherWriterNext]_vars

(***************************************************************************)
(* A second invocation of the guard, dry-run off, runs                     *)
(* _drop_public_invoker on the same service at the same time.  Its two     *)
(* remote calls interleave with those of the first in any order.           *)
(***************************************************************************)
PeerGetPolicy ==
  /\ peer.pc = "idle"
  /\ \/ peer' = [peer EXCEPT !.pc = "raised", !.resource = service_name]
     \/ LET f == FilterBindings(policy[service_name])
        IN  peer' = [pc |-> IF f.removed THEN "set_policy" ELSE "returned",
                     resource |-> service_name,
                     fetched |-> policy[service_name],
                     updated_bindings |-> f.updated,
                     changed |-> IF f.removed THEN None ELSE Some(FALSE)]
  /\ UNCHANGED <<inputs, policy0, remote, pc, outcome, err, evalLocals, confLocals,
                 idx, service_name, editLocals, waitLocals, log, calls, polled>>

\* A write of the snapshot as it was read, with its allUsers members.
PeerSetPolicyUnfiltered ==
  /\ peer.pc = "set_policy"
  /\ \/ /\ peer' = [peer EXCEPT !.pc = "raised"]
        /\ UNCHANGED policy
     \/ /\ policy' = [policy EXCEPT ![peer.resource] = peer.fetched]
        /\ peer' = [peer EXCEPT !.pc = "returned", !.changed = Some(TRUE)]
  /\ UNCHANGED <<inputs, policy0, ingress, operation, pc, outcome, err, evalLocals,
                 confLocals, idx, service_name, editLocals, waitLocals, log, calls,
                 polled>>

PeerSetPolicy ==
  /\ peer.pc = "set_policy"
  /\ \/ /\ peer' = [peer EXCEPT !.pc = "raised"]
        /\ UNCHANGED policy
     \/ /\ policy' = [policy EXCEPT ![peer.resource] = peer.updated_bindings]
        /\ peer' = [peer EXCEPT !.pc = "returned", !.changed = Some(TRUE)]
  /\ UNCHANGED <<inputs, policy0, ingress, operation, pc, outcome, err, evalLocals,
                 confLocals, idx, service_name, editLocals, waitLocals, log, calls,
                 polled>>

ConcurrentNext ==
  \/ GetPolicy
  \/ SetPolicy
  \/ PeerGetPolicy
  \/ PeerSetPolicy

ConcurrentSpec == EditorInit /\ [][ConcurrentNext]_vars

(***************************************************************************)
(* Vocabulary of the properties, stated on the inputs and on what the      *)
(* invocation did.                                                         *)
(***************************************************************************)
Terminated == pc \in {"returned", "raised"}
Remediating ==
  pc \in {"config", "credentials", "loop", "get_policy", "set_policy",
          "restrict", "wait"}
CallsOf(method) == {i \in 1..Len(calls) : calls[i].method = method}
NoRemoteCall == calls = <<>> /\ polled = {}
Logged(event) == \E i \in 1..Len(log) : log[i].event = event

DecodedNonEmpty == payload # EmptyDict
PayloadCost == Get(payload.costAmount, 0)
PayloadBudget == Get(payload.budgetAmount, 0)
ConfiguredThreshold == Get(environ.BUDGET_STOP_THRESHOLD, Frac(1, 1))
AtOrAboveThreshold ==
  PayloadCost * ConfiguredThreshold.den >= ConfiguredThreshold.num * PayloadBudget
AtThreshold ==
  PayloadCost * ConfiguredThreshold.den = ConfiguredThreshold.num * PayloadBudget
CompleteConfiguration ==
  /\ environ.GCP_PROJECT_ID \notin {None, Some("")}
  /\ \E i \in 1..Len(Get(environ.CLOUD_RUN_SERVICES, <<>>)) :
       Get(environ.CLOUD_RUN_SERVICES, <<>>)[i] \notin {" ", ","}

(***************************************************************************)
(* C1: with a non-empty decoded payload, costAmount >= 0, budgetAmount > 0 *)
(* and a complete configuration, remediation is started if and only if     *)
(* costAmount / budgetAmount >= threshold: a remote call is issued only    *)
(* at or above the threshold, an invocation that ends at or above it       *)
(* (equality included) has issued the first get-policy call, and one that  *)
(* ends strictly below it ended by the skip return, without any call.      *)
(***************************************************************************)
C1_ThresholdDecides ==
  (DecodedNonEmpty /\ PayloadCost >= 0 /\ PayloadBudget > 0 /\ CompleteConfiguration)
    => /\ (Remediating \/ ~NoRemoteCall) => AtOrAboveThreshold
       /\ (Terminated /\ AtOrAboveThreshold) =>
            /\ outcome \in {"finished", "raised"}
            /\ CallsOf("getIamPolicy") # {}
       /\ (Terminated /\ ~AtOrAboveThreshold) =>
            /\ pc = "returned" /\ outcome = "skipped" /\ err = ""
            /\ NoRemoteCall

C1_Witness ==
  /\ DecodedNonEmpty /\ PayloadCost > 0 /\ PayloadBudget > 0 /\ CompleteConfiguration
  /\ AtThreshold
  /\ CallsOf("getIamPolicy") # {}

(***************************************************************************)
(* C2: whenever budgetAmount <= 0 (an absent budgetAmount counts as 0),    *)
(* the invocation ends normally by the invalid-budget return and issues no *)
(* call, for every costAmount and every threshold.                         *)
(***************************************************************************)
C2_InvalidBudgetNoRemediation ==
  (DecodedNonEmpty /\ PayloadBudget <= 0)
    => /\ pc \in {"evaluate", "returned"}
       /\ pc = "returned" => (outcome = "invalid_budget" /\ err = "")
       /\ NoRemoteCall

C2_Witness ==
  /\ payload.budgetAmount = None
  /\ PayloadCost > 0
  /\ ConfiguredThreshold = Frac(0, 1)
  /\ pc = "returned" /\ outcome = "invalid_budget"

(***************************************************************************)
(* Vocabulary of the remediation properties.                               *)
(***************************************************************************)
DryRunSet == environ.BUDGET_GUARD_DRY_RUN \in {Some("1"), Some("TRUE")}
GetsOn(r) == {i \in CallsOf("getIamPolicy") : calls[i].resource = r}
SetsOn(r) == {i \in CallsOf("setIamPolicy") : calls[i].resource = r}
PatchesOn(r) == {i \in CallsOf("patch") : calls[i].resource = r}
LastOf(S) == CHOOSE i \in S : \A j \in S : j <= i
HasPublicInvoker(bindings) ==
  \E i \in 1..Len(bindings) :
    /\ bindings[i].role = InvokerRole
    /\ \E j \in 1..Len(bindings[i].members) : bindings[i].members[j] = AllUsers
LogCount(event) == Cardinality({i \in 1..Len(log) : log[i].event = event})

(***************************************************************************)
(* C3: with the dry-run flag set, no set-policy call, no patch call and no *)
(* get-operation poll is ever issued; the remote ingress, operations and   *)
(* policy stay as they were (the stored policy still equals what the       *)
(* Editor read); the Editor returns changed = true exactly when the policy *)
(* it read grants allUsers the invoker role; only a failing get-policy     *)
(* call can stop the invocation, and when it finishes it has read and      *)
(* logged the intended restriction of every configured service.            *)
(***************************************************************************)
C3_DryRunNeverWrites ==
  DryRunSet
    => /\ CallsOf("setIamPolicy") = {} /\ CallsOf("patch") = {} /\ polled = {}
       /\ \A r \in Resources :
            ingress[r] = "INGRESS_TRAFFIC_ALL" /\ operation[r] = "none"
       /\ pc \notin {"set_policy", "wait"}
       /\ pc = "restrict" =>
            /\ policy[service_name] = fetched
            /\ (changed = Some(TRUE)) <=> HasPublicInvoker(fetched)
            /\ (changed = Some(FALSE)) <=> ~HasPublicInvoker(fetched)
       /\ (pc = "raised" /\ calls # <<>>) =>
            /\ err = "HttpError"
            /\ calls[Len(calls)].method = "getIamPolicy"
       /\ (pc = "returned" /\ outcome = "finished") =>
            /\ Cardinality(CallsOf("getIamPolicy")) = Len(services)
            /\ LogCount("[dry-run] would set ingress internal-only") = Len(services)

C3_Witness ==
  /\ DryRunSet
  /\ pc = "returned" /\ outcome = "finished"
  /\ \A r \in Resources : HasPublicInvoker(policy[r])
  /\ changed = Some(TRUE)
  /\ Len(services) = 2
  /\ LogCount("[dry-run] would remove allUsers") = 2

(***************************************************************************)
(* C4: the Policy Editor is idempotent.  When a non-dry-run invocation     *)
(* runs the Editor a second time on a resource (the service is listed      *)
(* twice; nobody else writes), the second run issues no set-policy call,   *)
(* returns changed = false and leaves the stored policy as the first run   *)
(* left it.                                                                *)
(***************************************************************************)
C4_EditorIdempotent ==
  \A r \in Resources :
    (~DryRunSet /\ Cardinality(GetsOn(r)) >= 2)
      => /\ \A i \in SetsOn(r) : i < LastOf(GetsOn(r))
         /\ Cardinality(SetsOn(r)) <= 1
         /\ pc # "set_policy"
         /\ SetsOn(r) # {} => policy[r] = calls[LastOf(SetsOn(r))].body[1]
         /\ pc = "restrict" =>
              (service_name = r /\ changed = Some(FALSE) /\ policy[r] = fetched)

C4_Witness ==
  /\ ~DryRunSet
  /\ Cardinality(GetsOn(ResourceA)) = 2
  /\ Cardinality(SetsOn(ResourceA)) = 1
  /\ pc = "restrict" /\ changed = Some(FALSE)
  /\ Len(fetched) = 2

(***************************************************************************)
(* What the rewritten policy has to be, stated by positions: the members   *)
(* of a binding other than allUsers, and the bindings that are not invoker *)
(* bindings left without a member, each at its rank among those kept.      *)
(***************************************************************************)
RankIn(S, i) == Cardinality({k \in S : k <= i})
PrivateIdx(members) == {j \in 1..Len(members) : members[j] # AllUsers}
IsProjection(w, members) ==
  /\ Len(w) = Cardinality(PrivateIdx(members))
  /\ \A j \in PrivateIdx(members) : w[RankIn(PrivateIdx(members), j)] = members[j]
KeptIdx(f) ==
  {i \in 1..Len(f) : f[i].role # InvokerRole \/ PrivateIdx(f[i].members) # {}}
IsFilteredPolicy(w, f) ==
  /\ Len(w) = Cardinality(KeptIdx(f))
  /\ \A i \in KeptIdx(f) :
       LET b == w[RankIn(KeptIdx(f), i)]
       IN  IF f[i].role # InvokerRole
             THEN b = f[i]
             ELSE b.role = InvokerRole /\ IsProjection(b.members, f[i].members)

WaiterFailed == pc = "raised" /\ err = "OperationFailed"
WaiterTimedOut == pc = "raised" /\ err = "OperationTimeout"

(***************************************************************************)
(* C6: the Operation Waiter ends in exactly one of three ways, decided by  *)
(* what it observed: it returns (the invocation goes on) only after a poll *)
(* issued before the deadline answered done without error; it fails with   *)
(* OperationFailed exactly when such a poll answered done with an error;   *)
(* it fails with OperationTimeout exactly when the deadline was reached    *)
(* and no poll had answered done.  An operation still pending is never     *)
(* left behind as a success.                                               *)
(***************************************************************************)
C6_WaiterOutcomes ==
  /\ WaiterFailed =>
       (observed.answer = "error" /\ observed.intime
          /\ operation[operation_name] = "error")
  /\ WaiterTimedOut =>
       (observed.answer \in {"nothing", "pending"} /\ now >= deadline
          /\ operation[operation_name] = "pending")
  /\ observed.answer = "done" =>
       (observed.intime /\ pc # "wait" /\ ~WaiterFailed /\ ~WaiterTimedOut
          /\ operation[operation_name] = "done")
  /\ observed.answer = "error" => WaiterFailed
  /\ (operation_name # NoService /\ observed.answer \in {"nothing", "pending"}) =>
       (pc = "wait" \/ WaiterTimedOut)
  /\ \A r \in Resources :
       operation[r] = "pending" =>
         (operation_name = r /\ (pc = "wait" \/ WaiterTimedOut))

C6_Witness ==
  /\ pc = "raised" /\ err = "OperationTimeout"
  /\ polls * PollInterval = DefaultTimeout
  /\ Len(services) = 2 /\ idx = 2
  /\ operation[ResourceA] = "done"

ServiceAt(j) == ServiceName(project_id[1], region, services[j])

(***************************************************************************)
(* C7: an exception raised while remediating service k is not swallowed.   *)
(* It leaves handle_budget_alert (the invocation stops for good, without   *)
(* the final count); every call issued so far concerns one of the services *)
(* 1..k, each of which was read exactly once; the ingress patch of service *)
(* k was not issued when the failure came from the Policy Editor.          *)
(***************************************************************************)
C7_ExceptionsPropagate ==
  /\ err # "" => (pc = "raised" /\ outcome = "raised")
  /\ pc = "raised" =>
       (err # "" /\ ~ENABLED Next /\ ~Logged("budget guard finished"))
  /\ (pc = "raised" /\ calls # <<>>) =>
       LET last == calls[Len(calls)]
       IN  /\ err \in {"HttpError", "OperationFailed", "OperationTimeout"}
           /\ idx \in 1..Len(services)
           /\ last.resource = ServiceAt(idx)
           /\ \A i \in 2..Len(calls) :
                \E j \in 1..idx : calls[i].resource = ServiceAt(j)
           /\ Cardinality(CallsOf("getIamPolicy")) = idx
           /\ last.method \in {"getIamPolicy", "setIamPolicy", "patch"}
           /\ last.method \in {"getIamPolicy", "setIamPolicy"} =>
                /\ err = "HttpError"
                /\ Cardinality(CallsOf("patch")) = (IF DryRunSet THEN 0 ELSE idx - 1)
           /\ last.method = "patch" => Cardinality(CallsOf("patch")) = idx

C7_Witness ==
  /\ pc = "raised" /\ err = "HttpError"
  /\ calls[Len(calls)].method = "setIamPolicy"
  /\ idx = 1 /\ Len(services) = 2
  /\ services[1] # services[2]

ConfiguredResources ==
  {ServiceName(ProjectName, DefaultRegion, <<c>>) :
     c \in Range(Get(environ.CLOUD_RUN_SERVICES, <<>>)) \ {" ", ","}}

(***************************************************************************)
(* C8: when an invocation whose guard fired, with dry-run off, ends by     *)
(* emitting the final count (nobody else writing), every configured        *)
(* service is locked down: no allUsers under the invoker role in its       *)
(* policy, an internal-only ingress patch issued for each entry of the     *)
(* list, and the operation of that patch, if any, observed done without    *)
(* error.                                                                  *)
(***************************************************************************)
C8_CompletionMeansLockedDown ==
  (pc = "returned" /\ outcome = "finished" /\ ~DryRunSet)
    => /\ Logged("budget guard finished")
       /\ ConfiguredResources # {}
       /\ Cardinality(CallsOf("patch")) = Len(services)
       /\ \A r \in ConfiguredResources :
            /\ ~HasPublicInvoker(policy[r])
            /\ PatchesOn(r) # {}
            /\ \A i \in PatchesOn(r) : calls[i].body = Some(InternalOnly)
            /\ operation[r] \in {"none", "done"}
            /\ ingress[r] = InternalOnly

C8_Witness ==
  /\ pc = "returned" /\ outcome = "finished" /\ ~DryRunSet
  /\ ConfiguredResources = Resources
  /\ SetsOn(ResourceA) # {} /\ SetsOn(ResourceB) = {}
  /\ operation[ResourceA] = "done" /\ operation[ResourceB] = "none"

EndedAsEmpty ==
  /\ pc = "returned" /\ outcome = "empty" /\ err = ""
  /\ NoRemoteCall
  /\ log = <<LogLine("budget payload is empty", NoService, 0, None)>>

(***************************************************************************)
(* C9: when the event carries no payload data, or the decoder otherwise    *)
(* returns an empty mapping, the invocation ends normally after the one    *)
(* warning and issues no call at all (no credential acquisition either),   *)
(* whatever the configuration.                                             *)
(***************************************************************************)
C9_EmptyPayloadNoCalls ==
  /\ (cloud_event.encoded = <<>> /\ pc # "start") => EndedAsEmpty
  /\ (payload = EmptyDict /\ pc \notin {"start", "raised"}) => EndedAsEmpty

C9_Witness ==
  /\ cloud_event.encoded = <<>>
  /\ CompleteConfiguration /\ ~DryRunSet
  /\ EndedAsEmpty

WellFormedBase64(text) ==
  /\ \A i \in 1..Len(text) : text[i] \in {"x", "="}
  /\ Len(text) % 4 = 0
Undecodable ==
  /\ cloud_event.encoded # <<>>
  /\ \/ ~WellFormedBase64(cloud_event.encoded)
     \/ ~cloud_event.content.utf8
     \/ ~cloud_event.content.json

(***************************************************************************)
(* C10: when payload data is present but cannot be decoded (text that is   *)
(* not base64, bytes that are not UTF-8, text that is not JSON), the       *)
(* invocation aborts with the failure: it is not treated as an empty       *)
(* payload, no threshold is evaluated and no call is issued.               *)
(***************************************************************************)
C10_MalformedPayloadAborts ==
  (Undecodable /\ pc # "start")
    => /\ pc = "raised" /\ outcome = "raised" /\ err # ""
       /\ NoRemoteCall
       /\ log = <<>>

GuardFired ==
  /\ DecodedNonEmpty /\ PayloadBudget > 0 /\ AtOrAboveThreshold
  /\ pc \notin {"start", "evaluate", "decide"}
ProjectMissing == environ.GCP_PROJECT_ID \in {None, Some("")}
NoServiceNamed ==
  \A i \in 1..Len(Get(environ.CLOUD_RUN_SERVICES, <<>>)) :
    Get(environ.CLOUD_RUN_SERVICES, <<>>)[i] \in {" ", ","}

(***************************************************************************)
(* C11: when the guard fires but the project identifier is missing or the  *)
(* list of service names is empty after trimming and dropping the blank    *)
(* entries, the invocation is a terminal no-op: it logs one error and      *)
(* returns normally, it never reaches the credentials and it issues no     *)
(* remote call.                                                            *)
(***************************************************************************)
C11_MissingConfigurationNoOp ==
  (GuardFired /\ (ProjectMissing \/ NoServiceNamed))
    => /\ pc \in {"config", "returned"}
       /\ NoRemoteCall
       /\ pc = "returned" =>
            /\ outcome = "missing_env" /\ err = ""
            /\ log[Len(log)].event = "missing required env"
            /\ LogLevel(log[Len(log)].event) = "error"
            /\ LogCount("missing required env") = 1

C11_Witness ==
  /\ GuardFired
  /\ ~ProjectMissing /\ NoServiceNamed
  /\ environ.CLOUD_RUN_SERVICES = Some(<<" ", ",">>)
  /\ pc = "returned" /\ outcome = "missing_env"

EditorReturned == pc = "restrict"

(***************************************************************************)
(* C12: for every policy the Editor reads, it returns changed = true if    *)
(* and only if an invoker binding of that policy contains allUsers.  When  *)
(* it returns false, with or without dry-run, its get-policy call is the   *)
(* only call it issued (one read per service handled so far, no set-policy *)
(* after it) and the stored policy is still the policy it read.            *)
(***************************************************************************)
C12_ChangedIffPublicInvoker ==
  EditorReturned
    => /\ changed \in {Some(TRUE), Some(FALSE)}
       /\ (changed = Some(TRUE)) <=> HasPublicInvoker(fetched)
       /\ changed = Some(FALSE) =>
            /\ calls[Len(calls)] = Call("getIamPolicy", service_name, None)
            /\ Cardinality(CallsOf("getIamPolicy")) = idx
            /\ policy[service_name] = fetched

C12_Witness ==
  /\ EditorReturned /\ changed = Some(FALSE) /\ ~DryRunSet
  /\ Len(fetched) = 2
  /\ fetched[1] = [role |-> InvokerRole, members |-> <<>>]
  /\ fetched[2] = [role |-> "roles/viewer", members |-> <<AllUsers>>]

(***************************************************************************)
(* The steps that talk to the remote API, told by what they leave behind:  *)
(* a call appended to `calls`, or a poll counted by the Waiter.            *)
(***************************************************************************)
IssuesCall == Len(calls') = Len(calls) + 1
IssuesPoll ==
  \/ polled' # polled
  \/ polls' = polls + 1
  \/ observed' # observed /\ observed'.answer # "nothing"
ServicesBegun == Cardinality(CallsOf("getIamPolicy"))
OrderedStep ==
  /\ IssuesCall =>
       LET c == calls'[Len(calls')]
           k == ServicesBegun
       IN  /\ (c.method = "credentials.refresh") <=> (calls = <<>>)
           /\ c.method = "getIamPolicy" =>
                /\ k < Len(services)
                /\ c.resource = ServiceAt(k + 1)
                /\ k >= 1 =>
                     /\ calls[Len(calls)].resource = ServiceAt(k)
                     /\ calls[Len(calls)].method =
                          (IF DryRunSet THEN "getIamPolicy" ELSE "patch")
                     /\ DryRunSet =>
                          LogCount("[dry-run] would set ingress internal-only") = k
                     /\ operation[ServiceAt(k)] \in {"none", "done"}
           /\ c.method = "setIamPolicy" =>
                /\ c.resource = ServiceAt(k)
                /\ calls[Len(calls)] = Call("getIamPolicy", ServiceAt(k), None)
           /\ c.method = "patch" =>
                /\ c.resource = ServiceAt(k)
                /\ calls[Len(calls)].resource = ServiceAt(k)
                /\ calls[Len(calls)].method \in {"getIamPolicy", "setIamPolicy"}
                /\ calls[Len(calls)].method = "getIamPolicy" <=> changed = Some(FALSE)
                /\ calls[Len(calls)].method = "setIamPolicy" <=> changed = Some(TRUE)
                /\ Cardinality(CallsOf("patch")) = k - 1
  /\ IssuesPoll =>
       /\ ~IssuesCall
       /\ pc = "wait"
       /\ calls[Len(calls)] = Call("patch", ServiceAt(ServicesBegun), Some(InternalOnly))
       /\ operation_name = ServiceAt(ServicesBegun)
       /\ polled' = polled \cup {ServiceAt(ServicesBegun)}

(***************************************************************************)
(* C13: remediation is sequential and ordered.  Every step that issues a   *)
(* call issues the next one of the sequence: the k-th get-policy is for    *)
(* the k-th service of the list and comes only after the patch of service  *)
(* k-1 (in a dry run, after its logged restriction) and after any          *)
(* operation of that patch was observed done; a set-policy directly        *)
(* follows the get-policy of its service; the patch of a service follows   *)
(* its Editor's last call, whether the Editor returned true or false; and  *)
(* a get-operation poll is issued only while the patch of the current      *)
(* service is the last call issued.                                        *)
(***************************************************************************)
C13_SequentialOrder == [][OrderedStep]_vars

C13_Witness ==
  /\ pc = "returned" /\ outcome = "finished"
  /\ calls = <<Call("credentials.refresh", NoService, None),
               Call("getIamPolicy", ResourceA, None),
               Call("patch", ResourceA, Some(InternalOnly)),
               Call("getIamPolicy", ResourceB, None),
               Call("setIamPolicy", ResourceB, Some(<<>>)),
               Call("patch", ResourceB, Some(InternalOnly))>>
  /\ polled = {ResourceA, ResourceB}

ReachedEvaluatorAndCommitted ==
  DecodedNonEmpty /\ pc \notin {"start", "evaluate"}
RecordEmittedFirst ==
  /\ Logged("budget update")
  /\ log[1].event = "budget update"
  /\ log[1].detail # None
  /\ log[1].detail[1].cost = PayloadCost
  /\ log[1].detail[1].budget = PayloadBudget
  /\ log[1].detail[1].ratio.num * PayloadBudget
       = PayloadCost * log[1].detail[1].ratio.den
  /\ log[1].detail[1].displayName = payload.budgetDisplayName

(***************************************************************************)
(* C14: whenever an invocation has gone through the Threshold Evaluator    *)
(* with a non-empty payload, whatever the evaluation decided, the record   *)
(* of cost, budget, ratio and display name was emitted, and it was emitted *)
(* before anything that follows the decision: it is the first line of the  *)
(* log, ahead of the skip line, of every remediation line and of every     *)
(* call.                                                                   *)
(***************************************************************************)
C14_RecordBeforeEveryOutcome ==
  ReachedEvaluatorAndCommitted => RecordEmittedFirst

(***************************************************************************)
(* C14, amended: whenever an invocation has gone through the Threshold     *)
(* Evaluator with a non-empty payload and budgetAmount > 0, the record of  *)
(* cost, budget, ratio and display name is the first line of the log,      *)
(* ahead of the skip line, of every remediation line and of every call,    *)
(* for both decisions; with budgetAmount <= 0 the invocation ends with the *)
(* invalid-budget warning alone.                                           *)
(***************************************************************************)
C14_RecordBeforeDecision ==
  /\ (ReachedEvaluatorAndCommitted /\ PayloadBudget > 0) =>
       /\ RecordEmittedFirst
       /\ LogCount("budget update") = 1
       /\ outcome \notin {"empty", "invalid_budget"}
  /\ (ReachedEvaluatorAndCommitted /\ PayloadBudget <= 0) =>
       /\ outcome = "invalid_budget"
       /\ log = <<LogLine("invalid budget amount", NoService, PayloadBudget, None)>>

C14_Witness ==
  /\ ReachedEvaluatorAndCommitted
  /\ pc = "returned" /\ outcome = "skipped"
  /\ PayloadCost = 1 /\ PayloadBudget = 2
  /\ Len(log) = 2 /\ RecordEmittedFirst /\ log[2].event = "skip guard"

WaiterFrame == pc = "wait" \/ WaiterTimedOut
WaiterBounded ==
  /\ observed.intime
  /\ WaiterFrame =>
       /\ deadline = timeout_seconds
       /\ now >= polls * PollInterval
       /\ polls >= 1 => (polls - 1) * PollInterval < timeout_seconds
       /\ timeout_seconds <= 0 =>
            (polls = 0 /\ polled = {} /\ observed = NothingObserved)
  /\ (pc = "wait" /\ now >= deadline) => (~ENABLED WaitPoll /\ ENABLED WaitTimeout)
  /\ (pc = "wait" /\ now < deadline) => (ENABLED WaitPoll /\ ~ENABLED WaitTimeout)
  /\ WaiterTimedOut => now >= deadline

(***************************************************************************)
(* C15: the Operation Waiter always terminates.  Every poll is issued      *)
(* strictly before deadline = start + timeoutSeconds; a poll answered      *)
(* pending is followed by a sleep of 2, so after k such polls the clock is *)
(* at start + 2k or later and the k-th of them was issued before the       *)
(* deadline (at most one poll per 2 units of the timeout); at or after the *)
(* deadline the only step left is OperationTimeout, without another poll,  *)
(* and with timeoutSeconds <= 0 no poll is issued at all.  The call ends   *)
(* in every run.                                                           *)
(***************************************************************************)
C15_WaiterTerminates == []WaiterBounded /\ <>(pc # "wait")

C15_Witness ==
  /\ WaiterTimedOut
  /\ timeout_seconds = 3 /\ polls = 2 /\ now = 2 * PollInterval
  /\ observed.answer = "pending"

LastCallIsPatchOn(r) ==
  calls # <<>> /\ calls[Len(calls)] = Call("patch", r, Some(InternalOnly))
RestrictorReturned ==
  idx >= 2 /\ (pc = "loop" \/ (pc = "returned" /\ outcome = "finished"))

(***************************************************************************)
(* C16: with dry-run off, the Ingress Restrictor issues one patch per      *)
(* call.  When the patch answers with an operation handle the Restrictor   *)
(* is inside the Waiter until the Waiter ends: it has returned only if the *)
(* operation was polled and observed done, and OperationFailed and         *)
(* OperationTimeout leave it as the Waiter raised them, the patch still    *)
(* being the last call.  When the patch answers without a handle the       *)
(* Restrictor has returned at once and no poll was issued.                 *)
(***************************************************************************)
C16_RestrictorWaitsForHandle ==
  ~DryRunSet
    => /\ pc \in {"loop", "restrict"} => Cardinality(CallsOf("patch")) = idx - 1
       /\ pc = "wait" =>
            /\ Cardinality(CallsOf("patch")) = idx
            /\ LastCallIsPatchOn(service_name)
            /\ operation_name = service_name
            /\ operation[service_name] = "pending"
       /\ RestrictorReturned =>
            /\ Cardinality(CallsOf("patch")) = idx - 1
            /\ LastCallIsPatchOn(ServiceAt(idx - 1))
            /\ ingress[ServiceAt(idx - 1)] = InternalOnly
            /\ operation[ServiceAt(idx - 1)] \in {"none", "done"}
            /\ operation[ServiceAt(idx - 1)] = "done" => ServiceAt(idx - 1) \in polled
       /\ (WaiterFailed \/ WaiterTimedOut) =>
            /\ outcome = "raised"
            /\ LastCallIsPatchOn(service_name)
            /\ operation_name = service_name
            /\ Cardinality(CallsOf("patch")) = idx
            /\ operation[service_name] = (IF WaiterFailed THEN "error" ELSE "pending")
       /\ \A r \in Resources :
            /\ r \in polled => (PatchesOn(r) # {} /\ operation[r] # "none")
            /\ operation[r] = "none" => r \notin polled

C16_Witness ==
  /\ ~DryRunSet
  /\ pc = "loop" /\ idx = 2 /\ Len(services) = 2
  /\ LastCallIsPatchOn(ResourceA)
  /\ operation[ResourceA] = "none" /\ polled = {}
  /\ ingress[ResourceA] = InternalOnly

Deliveries == Cardinality(CallsOf("credentials.refresh"))
\* The set-policy calls that were answered: the Editor went on to the patch.
SucceededSets(r) ==
  {i \in SetsOn(r) :
     \/ i < Len(calls) /\ calls[i + 1].method = "patch"
     \/ i = Len(calls) /\ pc = "restrict"}
LockedDownAsByOneRun(r) ==
  /\ ~HasPublicInvoker(policy[r])
  /\ IF HasPublicInvoker(policy0[r])
       THEN IsFilteredPolicy(policy[r], policy0[r])
       ELSE policy[r] = policy0[r]
  /\ ingress[r] = InternalOnly

(***************************************************************************)
(* C17: redelivery is safe.  When an invocation aborts while remediating   *)
(* and the same event is delivered again, nobody else writing: no          *)
(* set-policy call at all is issued for a service after a set-policy of an *)
(* earlier delivery removed its public grant (the grant stays removed),    *)
(* and when a delivery completes every configured service is locked down   *)
(* as one failure-free invocation would have left it: the initial policy   *)
(* without allUsers under the invoker role, ingress internal-only.         *)
(***************************************************************************)
C17_RedeliverySafe ==
  /\ \A r \in Resources :
       /\ Cardinality(SucceededSets(r)) <= 1
       /\ \A i \in SucceededSets(r) :
            /\ \A j \in SetsOn(r) : j <= i
            /\ ~HasPublicInvoker(policy[r])
            /\ IsFilteredPolicy(policy[r], policy0[r])
  /\ (pc = "returned" /\ outcome = "finished") =>
       \A r \in ConfiguredResources : LockedDownAsByOneRun(r)

C17_Witness ==
  /\ Deliveries = 2
  /\ pc = "returned" /\ outcome = "finished"
  /\ \A r \in Resources : HasPublicInvoker(policy0[r])
  /\ \E i \in SetsOn(ResourceA), j \in PatchesOn(ResourceA), k \in CallsOf("credentials.refresh") :
       i < j /\ j + 1 = k
  /\ Cardinality(SetsOn(ResourceA)) = 1 /\ Cardinality(SetsOn(ResourceB)) = 1
  /\ Cardinality(GetsOn(ResourceA)) = 2

OurSetAnswered ==
  calls[Len(calls)].method = "setIamPolicy" /\ pc = "restrict"
WrittenBody == calls[Len(calls)].body[1]
OtherWrote == peer.pc = "wrote"

(***************************************************************************)
(* C18: the Editor's set-policy carries no concurrency token.  It is       *)
(* issued whenever the snapshot holds a public invoker, whatever is stored *)
(* by then, and it replaces the whole policy by the filtered snapshot:     *)
(* the stored policy is the body written (until someone writes after it),  *)
(* so an edit another writer made between the Editor's read and its write  *)
(* is gone.  What another writer stored is replaced only by such a write   *)
(* (its edit fell in between, or the Editor read it and found a public     *)
(* invoker): when the snapshot needs no change the Editor issues no        *)
(* set-policy and the other writer's policy stays as written.              *)
(***************************************************************************)
C18_UnconditionalReplace ==
  /\ pc = "set_policy" => (HasPublicInvoker(fetched) /\ ENABLED SetPolicy)
  /\ OurSetAnswered =>
       /\ HasPublicInvoker(fetched)
       /\ IsFilteredPolicy(WrittenBody, fetched)
       /\ \/ policy[service_name] = WrittenBody
          \/ /\ OtherWrote /\ peer.fetched = WrittenBody
             /\ policy[service_name] = peer.updated_bindings
  /\ (OtherWrote /\ policy[peer.resource] # peer.updated_bindings) =>
       /\ OurSetAnswered
       /\ HasPublicInvoker(fetched)
       /\ fetched \in {peer.fetched, peer.updated_bindings}
  /\ (pc = "restrict" /\ changed = Some(FALSE)) =>
       /\ CallsOf("setIamPolicy") = {}
       /\ policy[service_name] =
            (IF OtherWrote THEN peer.updated_bindings ELSE policy0[service_name])

C18_Witness ==
  /\ OurSetAnswered
  /\ OtherWrote /\ peer.resource = service_name
  /\ peer.fetched = fetched
  /\ peer.updated_bindings = Append(fetched, OtherBinding)
  /\ policy[service_name] = WrittenBody
  /\ \A i \in 1..Len(policy[service_name]) : policy[service_name][i] # OtherBinding

BothEditorsReturned == pc = "restrict" /\ peer.pc = "returned"

(***************************************************************************)
(* C20: two invocations, dry-run off, run the Policy Editor on the same    *)
(* service with their get-policy and set-policy calls interleaved in any   *)
(* order, nobody else writing.  Once both Editors have returned, the       *)
(* stored policy has no allUsers under the invoker role and is the initial *)
(* policy filtered, every other binding and member kept in place: what one *)
(* Editor run alone leaves.  One of them at least returned true exactly    *)
(* when the initial policy held a public invoker.                          *)
(***************************************************************************)
C20_ConcurrentEditorsConverge ==
  BothEditorsReturned
    => /\ ~HasPublicInvoker(policy[service_name])
       /\ IF HasPublicInvoker(policy0[service_name])
            THEN IsFilteredPolicy(policy[service_name], policy0[service_name])
            ELSE policy[service_name] = policy0[service_name]
       /\ (changed = Some(TRUE) \/ peer.changed = Some(TRUE))
            <=> HasPublicInvoker(policy0[service_name])

C20_Witness ==
  /\ BothEditorsReturned
  /\ peer.resource = service_name
  /\ changed = Some(TRUE) /\ peer.changed = Some(TRUE)
  /\ fetched = policy0[service_name] /\ peer.fetched = policy0[service_name]
  /\ Len(policy0[service_name]) = 2 /\ Len(policy[service_name]) = 2
  /\ \E i \in 1..2 :
       /\ policy0[service_name][i].role # InvokerRole
       /\ policy0[service_name][i].members = <<AllUsers, "user:a">>

RawServices == Get(environ.CLOUD_RUN_SERVICES, <<>>)
\* The places of CLOUD_RUN_SERVICES where a name starts: a character that is
\* neither blank nor comma, first of its kind since the last comma.
NameStarts ==
  {i \in 1..Len(RawServices) :
     /\ RawServices[i] \notin {" ", ","}
     /\ \A j \in 1..(i - 1) :
          RawServices[j] \notin {" ", ","} =>
            \E k \in (j + 1)..(i - 1) : RawServices[k] = ","}
Completed == pc = "returned" /\ outcome = "finished"

(***************************************************************************)
(* C19: the final count is emitted on successful completion of the whole   *)
(* list and only then.  It is the last line of the log, emitted once, and  *)
(* it counts the names of CLOUD_RUN_SERVICES that are non-empty after      *)
(* trimming, a name listed twice counted twice: as many as services were   *)
(* handled.  The empty-payload, invalid-budget, below-threshold,           *)
(* missing-configuration and exception paths emit no count.                *)
(***************************************************************************)
C19_FinalCountOnCompletion ==
  /\ Logged("budget guard finished") <=> Completed
  /\ Completed =>
       /\ log[Len(log)] =
            LogLine("budget guard finished", NoService, Cardinality(NameStarts), None)
       /\ LogCount("budget guard finished") = 1
       /\ LogCount("restricting public access") = Cardinality(NameStarts)
  /\ outcome \in {"empty", "invalid_budget", "skipped", "missing_env", "raised"} =>
       ~Logged("budget guard finished")

C19_Witness ==
  /\ Completed /\ ~DryRunSet
  /\ RawServices = <<"a", ",", " ", "a">>
  /\ log[Len(log)].event = "budget guard finished" /\ log[Len(log)].count = 2
  /\ Cardinality(ConfiguredResources) = 1

====
